---------------------------- MODULE Spec2Model ----------------------------
(***************************************************************************)
(* A model of the dcompass query router.                                   *)
(*                                                                         *)
(*   src/src/filter.rs                                   Filter: new,      *)
(*       check, get_resolver, resolve                                      *)
(*   src/droute/src/router/upstreams/upstream/builder.rs HybridBuilder,    *)
(*       UdpBuilder, UpstreamBuilder                                       *)
(*                                                                         *)
(* Four specifications share the variables:                                *)
(*   Spec           router construction, then queries one at a time        *)
(*   SpecConcurrent router construction, then interleaved queries          *)
(*   SpecBuilder    the upstream builders                                  *)
(*   SpecRace       the race over the members of a Hybrid upstream         *)
(***************************************************************************)
EXTENDS Integers, Sequences, FiniteSets, TLC

(***************************************************************************)
(* The state: the router, the builders, the race.                          *)
(***************************************************************************)
VARIABLES
  cfg,      \* the parsed configuration given to Filter::new
  phase,    \* "config" before Filter::new ran, then "built" or "failed"
  filter,   \* the Filter, once built
  newErr,   \* the error Filter::new returned, when it failed
  calls     \* the resolve() calls in flight, one per slot

filterVars == <<cfg, phase, filter, newErr, calls>>

VARIABLES
  builder,  \* the UpstreamBuilder being put together
  added,    \* the tags given to add_tag so far, in call order
  built,    \* what async_try_into returned, once called
  io        \* the I/O operations the builds performed

builderVars == <<builder, added, built, io>>

VARIABLES
  umap,     \* the tag -> Upstream map the race looks its members up in
  tasks     \* the task at each node: its state, and the leaf whose answer it returned

raceVars == <<umap, tasks>>

(***************************************************************************)
(* Bounds of the model.                                                    *)
(***************************************************************************)
MaxRules == 2
MaxUpstreams == 2
MaxQueries == 2
MaxAddTags == 4
MaxMembers == 2

(***************************************************************************)
(* The small sets the inputs are drawn from.                               *)
(***************************************************************************)
\* Upstream tags (u32 in filter.rs). NoTag fills a tag field that holds none.
Tags == {1, 2}
NoTag == 0

\* Rule files: two that load, one that cannot be opened.
Paths == {"a.txt", "b.txt", "missing.txt"}

\* A domain is its sequence of labels. BadDomain is a name the matcher
\* rejects (an empty label).
ExampleCom == <<"example", "com">>
SubExampleCom == <<"sub", "example", "com">>
NotExampleCom == <<"notexample", "com">>
BadDomain == <<"", "com">>
Domains == {ExampleCom, SubExampleCom, NotExampleCom, BadDomain}

RecordTypes == {"A", "AAAA"}
OpCodes == {"Query", "Status"}
Ids == {1, 2}
\* What a request may already carry in its answer section.
PreAnswers == {<<>>, <<"r0">>}
\* What a successful lookup yields (at least one record), and how one fails.
Lookups == {<<"r1">>, <<"r2", "r1">>}
LookupErrors == {"timeout", "transport"}

(***************************************************************************)
(* Result<T>: Ok(v) | Err(e).                                              *)
(***************************************************************************)
Ok(v) == [ok |-> TRUE, val |-> v, err |-> "", tag |-> NoTag]
Err(e, t) == [ok |-> FALSE, val |-> <<>>, err |-> e, tag |-> t]

(***************************************************************************)
(* The rule files on disk: File::open / read_to_string.                    *)
(***************************************************************************)
Readable(path) == path \in {"a.txt", "b.txt"}

\* The lines of a rule file; <<>> is an empty line.
FileData(path) ==
  CASE path = "a.txt" -> <<ExampleCom, <<>>>>
    [] path = "b.txt" -> <<SubExampleCom>>
    [] OTHER -> <<>>

(***************************************************************************)
(* Dmatcher: a map from domain keys to tags, matched by longest suffix of  *)
(* whole labels. A matcher is a set of <<key, tag>> pairs, one per key.    *)
(***************************************************************************)
Dmatcher_new == {}

Dmatcher_insert(m, domain, tag) ==
  {kt \in m : kt[1] # domain} \cup {<<domain, tag>>}

RECURSIVE Dmatcher_insert_lines(_, _, _, _)
Dmatcher_insert_lines(m, lines, i, tag) ==
  IF i > Len(lines) THEN m
  ELSE Dmatcher_insert_lines(
         IF lines[i] = <<>> THEN m ELSE Dmatcher_insert(m, lines[i], tag),
         lines, i + 1, tag)

IsSuffix(key, domain) ==
  /\ Len(key) <= Len(domain)
  /\ \A i \in 1..Len(key) : key[i] = domain[Len(domain) - Len(key) + i]

Malformed(domain) == \E i \in 1..Len(domain) : domain[i] = ""

\* Result<Option<tag>>: kind is "Some", "None" or "Err".
Dmatcher_matches(m, domain) ==
  IF Malformed(domain) THEN [kind |-> "Err", tag |-> NoTag]
  ELSE LET hits == {kt \in m : IsSuffix(kt[1], domain)} IN
       IF hits = {} THEN [kind |-> "None", tag |-> NoTag]
       ELSE LET best == CHOOSE kt \in hits :
                          \A o \in hits : Len(o[1]) <= Len(kt[1])
            IN [kind |-> "Some", tag |-> best[2]]

(***************************************************************************)
(* Parsed: the configuration Filter::new is given.                         *)
(***************************************************************************)
SeqsUpTo(S, n) == UNION {[1..k -> S] : k \in 0..n}

\* An Upstream of the configuration: its tag, and whether its resolver can
\* be built (TokioAsyncResolver::tokio(..).await succeeds).
Rules == [path : Paths, dst : Tags]
Upstreams == [tag : Tags, buildable : BOOLEAN]

Parsed ==
  [rules : SeqsUpTo(Rules, MaxRules),
   upstreams : SeqsUpTo(Upstreams, MaxUpstreams),
   default_tag : Tags,
   disable_ipv6 : BOOLEAN]

(***************************************************************************)
(* Filter::insert_rules, Filter::insert_upstreams, Filter::check.          *)
(***************************************************************************)
RECURSIVE insert_rules_from(_, _, _, _)
insert_rules_from(rules, i, m, v) ==
  IF i > Len(rules) THEN Ok(<<m, v>>)
  ELSE IF ~Readable(rules[i].path) THEN Err("io", NoTag)
  ELSE insert_rules_from(
         rules, i + 1,
         Dmatcher_insert_lines(m, FileData(rules[i].path), 1, rules[i].dst),
         Append(v, rules[i].dst))

insert_rules(rules) == insert_rules_from(rules, 1, Dmatcher_new, <<>>)

\* The map tag -> resolver. A resolver is named by the position of the
\* upstream it was built from; a later upstream of the same tag replaces
\* the earlier one (HashMap::insert).
RECURSIVE insert_upstreams_from(_, _, _)
insert_upstreams_from(upstreams, i, r) ==
  IF i > Len(upstreams) THEN Ok(r)
  ELSE IF ~upstreams[i].buildable THEN Err("resolver", NoTag)
  ELSE insert_upstreams_from(
         upstreams, i + 1,
         [t \in DOMAIN r \cup {upstreams[i].tag} |->
            IF t = upstreams[i].tag THEN i ELSE r[t]])

insert_upstreams(upstreams) == insert_upstreams_from(upstreams, 1, <<>>)

check_default_only(f, default) ==
  IF default \notin DOMAIN f.resolvers
  THEN Err("Missing default resolver", default)
  ELSE Ok(<<>>)

check_dsts_only(f, default) ==
  IF \E i \in 1..Len(f.dsts) : f.dsts[i] \notin DOMAIN f.resolvers
  THEN LET i == CHOOSE j \in 1..Len(f.dsts) :
                  /\ f.dsts[j] \notin DOMAIN f.resolvers
                  /\ \A k \in 1..(j - 1) : f.dsts[k] \in DOMAIN f.resolvers
       IN Err("Missing resolver", f.dsts[i])
  ELSE Ok(<<>>)

check(f, default) ==
  IF \E i \in 1..Len(f.dsts) : f.dsts[i] \notin DOMAIN f.resolvers
  THEN LET i == CHOOSE j \in 1..Len(f.dsts) :
                  /\ f.dsts[j] \notin DOMAIN f.resolvers
                  /\ \A k \in 1..(j - 1) : f.dsts[k] \in DOMAIN f.resolvers
       IN Err("Missing resolver", f.dsts[i])
  ELSE IF default \notin DOMAIN f.resolvers
  THEN Err("Missing default resolver", default)
  ELSE Ok(<<>>)

\* Filter::new after the configuration is parsed: Ok(filter) or the first
\* error, in the order the code meets them.
new(p) ==
  LET ir == insert_rules(p.rules) IN
  IF ~ir.ok THEN ir
  ELSE LET iu == insert_upstreams(p.upstreams) IN
       IF ~iu.ok THEN iu
       ELSE LET f == [matcher |-> ir.val[1],
                      resolvers |-> iu.val,
                      default_tag |-> p.default_tag,
                      disable_ipv6 |-> p.disable_ipv6,
                      dsts |-> ir.val[2]]
                c == check(f, f.default_tag)
            IN IF ~c.ok THEN c ELSE Ok(f)


(***************************************************************************)
(* DNS messages (trust_dns_proto::op::Message), as far as resolve reads    *)
(* and writes them.                                                        *)
(***************************************************************************)
NoMsg ==
  [id |-> 0, op_code |-> "none", message_type |-> "none",
   response_code |-> "none", queries |-> <<>>, answers |-> <<>>]

\* A request for (domain, qtype) as a client sends it.
Request(id, op_code, domain, qtype, pre) ==
  [id |-> id, op_code |-> op_code, message_type |-> "Query",
   response_code |-> "NoError",
   queries |-> <<[name |-> domain, query_type |-> qtype]>>,
   answers |-> pre]

\* Message::error_msg(id, op_code, response_code)
error_msg(id, op_code, response_code) ==
  [id |-> id, op_code |-> op_code, message_type |-> "Response",
   response_code |-> response_code, queries |-> <<>>, answers |-> <<>>]

add_answers_replacing(msg, records) == [msg EXCEPT !.answers = records]

\* Message::add_answers(records)
add_answers(msg, records) == [msg EXCEPT !.answers = @ \o records]

(***************************************************************************)
(* The calls in flight.                                                    *)
(***************************************************************************)

Slots == 1..MaxQueries

NoFilter ==
  [matcher |-> {}, resolvers |-> <<>>, default_tag |-> NoTag,
   disable_ipv6 |-> FALSE, dsts |-> <<>>]

NoRet == [kind |-> "none", msg |-> NoMsg, err |-> "", tag |-> NoTag]
RetOk(msg) == [kind |-> "Ok", msg |-> msg, err |-> "", tag |-> NoTag]
RetErr(e, t) == [kind |-> "Err", msg |-> NoMsg, err |-> e, tag |-> t]

\* A slot: where the call stands, its arguments (given is the request as the
\* caller passed it, req the `mut req` resolve works on), the tag and
\* resolver it was routed to, the lookups it issued, the lookup's outcome
\* and records, and what resolve returned.
Idle ==
  [pc |-> "idle", domain |-> <<>>, qtype |-> "none", given |-> NoMsg,
   req |-> NoMsg, tag |-> NoTag, resolver |-> 0, lookups |-> 0,
   lookup |-> "none", records |-> <<>>, ret |-> NoRet]

(***************************************************************************)
(* Filter::get_resolver and Filter::resolve.                               *)
(***************************************************************************)
get_resolver_default_always(f, domain) ==
  LET m == Dmatcher_matches(f.matcher, domain) IN
  IF m.kind = "Err" THEN Err("matcher", NoTag)
  ELSE IF f.default_tag \in DOMAIN f.resolvers
       THEN [Ok(f.resolvers[f.default_tag]) EXCEPT !.tag = f.default_tag]
       ELSE Err("Missing default resolver", f.default_tag)

get_resolver(f, domain) ==
  LET m == Dmatcher_matches(f.matcher, domain) IN
  IF m.kind = "Err" THEN Err("matcher", NoTag)
  ELSE IF m.kind = "Some"
  THEN IF m.tag \in DOMAIN f.resolvers
       THEN [Ok(f.resolvers[m.tag]) EXCEPT !.tag = m.tag]
       ELSE Err("Missing resolver", m.tag)
  ELSE IF f.default_tag \in DOMAIN f.resolvers
       THEN [Ok(f.resolvers[f.default_tag]) EXCEPT !.tag = f.default_tag]
       ELSE Err("Missing default resolver", f.default_tag)

resolve_poll_ipv6_unchecked(f, domain, qtype, req) ==
  LET call == [Idle EXCEPT !.domain = domain, !.qtype = qtype,
                           !.given = req, !.req = req]
      r == get_resolver(f, domain)
  IN IF ~r.ok
     THEN [call EXCEPT !.pc = "done", !.ret = RetErr(r.err, r.tag)]
     ELSE [call EXCEPT !.pc = "awaiting", !.tag = r.tag,
                       !.resolver = r.val, !.lookups = @ + 1]

\* resolve up to its await: the IPv6 short-circuit, an error of
\* get_resolver returned by `?`, or the lookup issued on the resolver.
resolve_poll(f, domain, qtype, req) ==
  LET call == [Idle EXCEPT !.domain = domain, !.qtype = qtype,
                           !.given = req, !.req = req] IN
  IF qtype = "AAAA" /\ f.disable_ipv6
  THEN [call EXCEPT !.pc = "done",
                    !.ret = RetOk(error_msg(req.id, req.op_code, "NXDomain"))]
  ELSE LET r == get_resolver(f, domain) IN
       IF ~r.ok
       THEN [call EXCEPT !.pc = "done", !.ret = RetErr(r.err, r.tag)]
       ELSE [call EXCEPT !.pc = "awaiting", !.tag = r.tag,
                         !.resolver = r.val, !.lookups = @ + 1]

\* resolve after the await: res is what the lookup returned.
resolve_ready(call, res) ==
  IF ~res.ok
  THEN [call EXCEPT
          !.pc = "done", !.lookup = "Err",
          !.ret = RetOk(error_msg(call.req.id, call.req.op_code, "NXDomain"))]
  ELSE [call EXCEPT
          !.pc = "done", !.lookup = "Ok", !.records = res.val,
          !.ret = RetOk(add_answers(call.req, res.val))]

(***************************************************************************)
(* Actions of the router.                                                  *)
(***************************************************************************)
InitFilter(configs) ==
  /\ cfg \in configs
  /\ phase = "config"
  /\ filter = NoFilter
  /\ newErr = Ok(<<>>)
  /\ calls = [q \in Slots |-> Idle]

\* Filter::new
New ==
  /\ phase = "config"
  /\ LET r == new(cfg) IN
     IF r.ok
     THEN /\ phase' = "built"
          /\ filter' = r.val
          /\ newErr' = newErr
     ELSE /\ phase' = "failed"
          /\ filter' = filter
          /\ newErr' = r
  /\ UNCHANGED <<cfg, calls, builderVars, raceVars>>

\* A caller starts resolve(domain, qtype, req) and polls it to its await.
Resolve(q) ==
  /\ phase = "built"
  /\ calls[q].pc = "idle"
  /\ \E domain \in Domains, qtype \in RecordTypes, id \in Ids,
        op \in OpCodes, pre \in PreAnswers :
       calls' = [calls EXCEPT ![q] =
                   resolve_poll(filter, domain, qtype,
                                Request(id, op, domain, qtype, pre))]
  /\ UNCHANGED <<cfg, phase, filter, newErr, builderVars, raceVars>>

LookupResults ==
  {Ok(rs) : rs \in Lookups} \cup {Err(e, NoTag) : e \in LookupErrors}

\* As LookupDone, with the request kept in one place shared by the calls in
\* flight instead of in each call.
LookupDone_shared_req(q) ==
  /\ calls[q].pc = "awaiting"
  /\ \E res \in LookupResults :
     \E o \in {s \in Slots : calls[s].pc = "awaiting"} :
       calls' = [calls EXCEPT ![q] =
                   resolve_ready([calls[q] EXCEPT !.req = calls[o].req], res)]
  /\ UNCHANGED <<cfg, phase, filter, newErr, builderVars, raceVars>>

\* As LookupDone, dropping from the map a resolver whose lookup failed.
LookupDone_evicting(q) ==
  /\ calls[q].pc = "awaiting"
  /\ \E res \in LookupResults :
       /\ calls' = [calls EXCEPT ![q] = resolve_ready(calls[q], res)]
       /\ filter' = IF res.ok THEN filter
                    ELSE [filter EXCEPT !.resolvers =
                            [t \in DOMAIN @ \ {calls[q].tag} |-> @[t]]]
  /\ UNCHANGED <<cfg, phase, newErr, builderVars, raceVars>>

\* The resolver's lookup completes and resolve returns.
LookupDone(q) ==
  /\ calls[q].pc = "awaiting"
  /\ \E res \in LookupResults :
       calls' = [calls EXCEPT ![q] = resolve_ready(calls[q], res)]
  /\ UNCHANGED <<cfg, phase, filter, newErr, builderVars, raceVars>>

\* The caller takes the result; the slot is free for the next query.
Return(q) ==
  /\ calls[q].pc = "done"
  /\ calls' = [calls EXCEPT ![q] = Idle]
  /\ UNCHANGED <<cfg, phase, filter, newErr, builderVars, raceVars>>

OthersIdle(q) == \A o \in Slots \ {q} : calls[o].pc = "idle"


(***************************************************************************)
(* The upstream builders (builder.rs).                                     *)
(***************************************************************************)
\* Default value for timeout
default_timeout == 5

\* Labels given to add_tag: "udp" names a UDP upstream, "ghost" names no
\* upstream, "self" is the tag the hybrid itself is registered under.
Labels == {"udp", "ghost", "self"}

\* Socket addresses of a UdpBuilder: one the transport can be created on,
\* one it cannot.
Addrs == {"1.1.1.1:53", "unbindable"}
Timeouts == {default_timeout, 1}


\* HybridBuilder::new and the UpstreamBuilder variants.
HybridBuilder_new == [variant |-> "hybrid", tags |-> <<>>, addr |-> "", timeout |-> 0]
UdpBuilder(addr, timeout) ==
  [variant |-> "udp", tags |-> <<>>, addr |-> addr, timeout |-> timeout]

\* The runtime Upstream.
Hybrid(tags) == [kind |-> "Hybrid", tags |-> tags, addr |-> "", timeout |-> 0]
Others(addr, timeout) == [kind |-> "Others", tags |-> <<>>, addr |-> addr, timeout |-> timeout]
NoUpstream == [kind |-> "none", tags |-> <<>>, addr |-> "", timeout |-> 0]

\* The outcome of a build: Ok(upstream) or Err, and the I/O it performed.
BuildOk(u, n) == [done |-> TRUE, ok |-> TRUE, upstream |-> u, io |-> n]
BuildErr(n) == [done |-> TRUE, ok |-> FALSE, upstream |-> NoUpstream, io |-> n]
NotBuilt == [done |-> FALSE, ok |-> FALSE, upstream |-> NoUpstream, io |-> 0]

\* HybridBuilder::add_tag
add_tag(b, tag) == [b EXCEPT !.tags = Append(@, tag)]

Hybrid_try_into_checked(b) ==
  IF \E i \in 1..Len(b.tags) : b.tags[i] # "udp"
  THEN BuildErr(0)
  ELSE BuildOk(Hybrid(b.tags), 0)

\* <HybridBuilder as AsyncTryInto<Upstream>>::async_try_into
Hybrid_async_try_into(b) == BuildOk(Hybrid(b.tags), 0)

\* <UdpBuilder as AsyncTryInto<Upstream>>::async_try_into: Udp::new opens
\* the socket (one I/O operation) and may fail.
Udp_async_try_into(b) ==
  IF b.addr = "unbindable" THEN BuildErr(1)
  ELSE BuildOk(Others(b.addr, b.timeout), 1)

\* <UpstreamBuilder as AsyncTryInto<Upstream>>::async_try_into
Upstream_async_try_into(b) ==
  IF b.variant = "hybrid" THEN Hybrid_async_try_into(b)
  ELSE Udp_async_try_into(b)

BuilderIdle ==
  /\ builder = HybridBuilder_new
  /\ added = <<>>
  /\ built = NotBuilt
  /\ io = 0

InitBuilder ==
  /\ builder \in {HybridBuilder_new}
                   \cup {UdpBuilder(a, t) : a \in Addrs, t \in Timeouts}
  /\ added = <<>>
  /\ built = NotBuilt
  /\ io = 0

AddTag(tag) ==
  /\ builder.variant = "hybrid"
  /\ ~built.done
  /\ Len(added) < MaxAddTags
  /\ builder' = add_tag(builder, tag)
  /\ added' = Append(added, tag)
  /\ UNCHANGED <<built, io, filterVars, raceVars>>

\* HybridBuilder built directly.
BuildHybrid ==
  /\ builder.variant = "hybrid"
  /\ ~built.done
  /\ built' = Hybrid_async_try_into(builder)
  /\ io' = io + built'.io
  /\ UNCHANGED <<builder, added, filterVars, raceVars>>

\* Any builder built through the UpstreamBuilder dispatch.
BuildUpstream ==
  /\ ~built.done
  /\ built' = Upstream_async_try_into(builder)
  /\ io' = io + built'.io
  /\ UNCHANGED <<builder, added, filterVars, raceVars>>


(***************************************************************************)
(* The race over the members of a Hybrid upstream.                         *)
(*                                                                         *)
(* A query resolved through tag RootTag is a tree of tasks: a node is      *)
(* named by the path of member positions leading to it, and resolves the   *)
(* tag found there by the same tag -> Upstream lookup at every level.      *)
(***************************************************************************)
\* "h" is a Hybrid upstream whose members may be the Hybrid upstream "g";
\* "a" and "b" are pooled transports, "x" names no upstream. The map has no
\* tag cycle: a cycle makes the nesting, and so the tree, unbounded.
RaceTags == {"h", "g", "a", "b", "x"}
RootTag == "h"

Positions == 1..MaxMembers
Nodes ==
  {<<>>} \cup {<<i>> : i \in Positions}
         \cup {<<i, j>> : i \in Positions, j \in Positions}
NoTask == [st |-> "absent", spawned |-> FALSE, win |-> <<0>>]

UpstreamMaps ==
  {[t \in RaceTags |->
      CASE t = "h" -> Hybrid(hm)
        [] t = "g" -> Hybrid(gm)
        [] t \in {"a", "b"} -> Others(t, default_timeout)
        [] OTHER -> NoUpstream] :
     hm \in SeqsUpTo({"g", "a", "b", "x"}, MaxMembers),
     gm \in SeqsUpTo({"a", "b", "x"}, MaxMembers)}

Front(p) == SubSeq(p, 1, Len(p) - 1)

\* The tag a node resolves: the root's, or the member of its parent's
\* Hybrid list at the node's position.
RECURSIVE TagAt(_, _)
TagAt(m, p) ==
  IF p = <<>> THEN RootTag ELSE m[TagAt(m, Front(p))].tags[p[Len(p)]]

KindAt(m, p) == m[TagAt(m, p)].kind

Children(m, p) == {Append(p, i) : i \in 1..Len(m[TagAt(m, p)].tags)}

\* node d lies in the subtree of node p
Under(p, d) == Len(p) <= Len(d) /\ SubSeq(d, 1, Len(p)) = p

\* A member failed: its race fails when every member has failed, and that
\* failure is in turn a member's failure one level up.
RECURSIVE FailFirstEnds(_, _, _)
FailFirstEnds(m, ts, p) ==
  LET t1 == [ts EXCEPT ![p].st = "failed"] IN
  IF p = <<>> THEN t1 ELSE FailFirstEnds(m, t1, Front(p))

RECURSIVE FailFrom(_, _, _)
FailFrom(m, ts, p) ==
  LET t1 == [ts EXCEPT ![p].st = "failed"] IN
  IF p = <<>> THEN t1
  ELSE IF \A c \in Children(m, Front(p)) : t1[c].st = "failed"
  THEN FailFrom(m, t1, Front(p))
  ELSE t1

\* A member succeeded with the answer of leaf w: its race returns that
\* answer, the members still in flight are dropped with all their
\* sub-tasks, and the success is a member's success one level up.
RECURSIVE SucceedFrom(_, _, _, _)
SucceedFrom(m, ts, p, w) ==
  LET t1 == [ts EXCEPT ![p].st = "ok", ![p].win = w] IN
  IF p = <<>> THEN t1
  ELSE LET par == Front(p)
           t2 == [d \in Nodes |->
                    IF Under(par, d) /\ d # par /\ t1[d].st = "running"
                    THEN [t1[d] EXCEPT !.st = "cancelled"]
                    ELSE t1[d]]
       IN SucceedFrom(m, t2, par, w)

RaceIdle ==
  /\ umap = [t \in RaceTags |-> NoUpstream]
  /\ tasks = [p \in Nodes |-> NoTask]

InitRace ==
  /\ umap \in UpstreamMaps
  /\ tasks = [p \in Nodes |-> NoTask]

\* The router starts resolving the root tag.
RaceStart ==
  /\ tasks[<<>>].st = "absent"
  /\ tasks' = [tasks EXCEPT ![<<>>].st = "running"]
  /\ UNCHANGED <<umap, filterVars, builderVars>>

\* A Hybrid task issues the query against every member at once.
Spawn(p) ==
  /\ tasks[p].st = "running"
  /\ KindAt(umap, p) = "Hybrid"
  /\ ~tasks[p].spawned
  /\ Children(umap, p) # {}
  /\ tasks' = [d \in Nodes |->
                 IF d = p THEN [tasks[d] EXCEPT !.spawned = TRUE]
                 ELSE IF d \in Children(umap, p)
                 THEN [tasks[d] EXCEPT !.st = "running"]
                 ELSE tasks[d]]
  /\ UNCHANGED <<umap, filterVars, builderVars>>

\* A Hybrid task without members has nothing to race: it fails.
Exhausted(p) ==
  /\ tasks[p].st = "running"
  /\ KindAt(umap, p) = "Hybrid"
  /\ Children(umap, p) = {}
  /\ tasks' = FailFrom(umap, tasks, p)
  /\ UNCHANGED <<umap, filterVars, builderVars>>

\* A pooled transport answers.
LeafOk(p) ==
  /\ tasks[p].st = "running"
  /\ KindAt(umap, p) = "Others"
  /\ tasks' = SucceedFrom(umap, tasks, p, p)
  /\ UNCHANGED <<umap, filterVars, builderVars>>

\* A pooled transport fails or times out; a tag without upstream fails.
LeafFail(p) ==
  /\ tasks[p].st = "running"
  /\ KindAt(umap, p) \in {"Others", "none"}
  /\ tasks' = FailFrom(umap, tasks, p)
  /\ UNCHANGED <<umap, filterVars, builderVars>>

(***************************************************************************)
(* The specifications.                                                     *)
(***************************************************************************)
vars == <<filterVars, builderVars, raceVars>>

\* Configurations with one upstream and at most one rule.
SmallParsed == {p \in Parsed : Len(p.rules) <= 1 /\ Len(p.upstreams) = 1}

NoParsed ==
  [rules |-> <<>>, upstreams |-> <<>>, default_tag |-> NoTag,
   disable_ipv6 |-> FALSE]

Init == InitFilter(Parsed) /\ BuilderIdle /\ RaceIdle
InitConcurrent == InitFilter(SmallParsed) /\ BuilderIdle /\ RaceIdle
InitBuilders == InitFilter({NoParsed}) /\ InitBuilder /\ RaceIdle
InitRaces == InitFilter({NoParsed}) /\ BuilderIdle /\ InitRace

\* One query at a time, in the first slot.
ResolveAlone(q) ==
  /\ OthersIdle(q)
  /\ \A o \in Slots : q <= o
  /\ Resolve(q)

Next ==
  \/ New
  \/ \E q \in Slots : ResolveAlone(q)
  \/ \E q \in Slots : LookupDone(q)
  \/ \E q \in Slots : Return(q)

NextConcurrent ==
  \/ New
  \/ \E q \in Slots : Resolve(q)
  \/ \E q \in Slots : LookupDone(q)
  \/ \E q \in Slots : Return(q)

NextBuilder ==
  \/ \E tag \in Labels : AddTag(tag)
  \/ BuildHybrid
  \/ BuildUpstream

NextRace ==
  \/ RaceStart
  \/ \E p \in Nodes : Spawn(p)
  \/ \E p \in Nodes : Exhausted(p)
  \/ \E p \in Nodes : LeafOk(p)
  \/ \E p \in Nodes : LeafFail(p)

Spec == Init /\ [][Next]_vars
SpecConcurrent == InitConcurrent /\ [][NextConcurrent]_vars
SpecBuilder == InitBuilders /\ [][NextBuilder]_vars
SpecRace == InitRaces /\ [][NextRace]_vars


(***************************************************************************)
(* The properties.                                                         *)
(***************************************************************************)
AllLoad(p) == \A i \in 1..Len(p.rules) : Readable(p.rules[i].path)
AllBuildable(p) == \A i \in 1..Len(p.upstreams) : p.upstreams[i].buildable
UpstreamTags(p) == {p.upstreams[i].tag : i \in 1..Len(p.upstreams)}
RuleDsts(p) == {p.rules[i].dst : i \in 1..Len(p.rules)}
MissingErrors == {"Missing resolver", "Missing default resolver"}

NXDomainFor(msg) == error_msg(msg.id, msg.op_code, "NXDomain")
ShortCircuited(c) == c.qtype = "AAAA" /\ filter.disable_ipv6

C2_Ipv6ShortCircuit ==
  \A q \in Slots :
    (calls[q].pc # "idle" /\ ShortCircuited(calls[q])) =>
      /\ calls[q].pc = "done"
      /\ calls[q].ret = RetOk(NXDomainFor(calls[q].given))
      /\ calls[q].lookups = 0
      /\ calls[q].resolver = 0

\* An AAAA query for a domain that a rule matches was short-circuited.
C2_Witness ==
  \E q \in Slots :
    /\ calls[q].pc = "done" /\ ShortCircuited(calls[q])
    /\ Dmatcher_matches(filter.matcher, calls[q].domain).kind = "Some"
    /\ calls[q].ret.msg.response_code = "NXDomain"

\* A query failed when its routing failed or its lookup failed.
Failed(c) ==
  /\ c.pc = "done"
  /\ ~ShortCircuited(c)
  /\ (~get_resolver(filter, c.domain).ok \/ c.lookup = "Err")

\* C3 (as claimed): whenever routing or the lookup of a query fails,
\* resolve returns Ok(NXDOMAIN) with the id and opcode of the request, and
\* never an error.
C3_FailuresAbsorbed ==
  \A q \in Slots :
    Failed(calls[q]) => calls[q].ret = RetOk(NXDomainFor(calls[q].given))

\* C4: when the lookup succeeds, the response is the request with the
\* lookup's records appended, in their order, after the answers it already
\* had; every other part is the request's.
C4_SuccessAppendsRecords ==
  \A q \in Slots :
    calls[q].lookup = "Ok" =>
      LET rq == calls[q].given
          rs == calls[q].ret.msg
          n == Len(rq.answers)
      IN /\ calls[q].ret.kind = "Ok"
         /\ rs.id = rq.id
         /\ rs.op_code = rq.op_code
         /\ rs.message_type = rq.message_type
         /\ rs.response_code = rq.response_code
         /\ rs.queries = rq.queries
         /\ Len(rs.answers) = n + Len(calls[q].records)
         /\ \A i \in 1..n : rs.answers[i] = rq.answers[i]
         /\ \A i \in 1..Len(calls[q].records) :
              rs.answers[n + i] = calls[q].records[i]

\* A lookup returned two records for a request that already had an answer.
C4_Witness ==
  \E q \in Slots :
    /\ calls[q].lookup = "Ok"
    /\ Len(calls[q].given.answers) = 1
    /\ Len(calls[q].records) = 2
    /\ Len(calls[q].ret.msg.answers) = 3

\* C5: in a built router every tag the matcher can return, every recorded
\* dst and the default tag have a resolver, so get_resolver never fails
\* with a missing resolver and no call returns that error.
C5_NoMissingResolverAtQueryTime ==
  phase = "built" =>
    /\ \A i \in 1..Len(filter.dsts) : filter.dsts[i] \in DOMAIN filter.resolvers
    /\ filter.default_tag \in DOMAIN filter.resolvers
    /\ \A kt \in filter.matcher : kt[2] \in DOMAIN filter.resolvers
    /\ \A d \in Domains : get_resolver(filter, d).err \notin MissingErrors
    /\ \A q \in Slots : calls[q].ret.err \notin MissingErrors

\* A query was routed by a rule whose tag is not the default tag, and its
\* lookup was issued.
C5_Witness ==
  \E q \in Slots :
    /\ calls[q].pc = "done"
    /\ calls[q].lookups = 1
    /\ Dmatcher_matches(filter.matcher, calls[q].domain).kind = "Some"
    /\ calls[q].tag # filter.default_tag

\* C6: every response resolve returns, while other calls are in flight,
\* carries the id and opcode of the request its own caller passed.
C6_OwnIdAndOpcode ==
  \A q \in Slots :
    calls[q].ret.kind = "Ok" =>
      /\ calls[q].ret.msg.id = calls[q].given.id
      /\ calls[q].ret.msg.op_code = calls[q].given.op_code

\* One call has returned while another, with another id and opcode, is
\* still awaiting its lookup.
C6_Witness ==
  \E q \in Slots, o \in Slots :
    /\ q # o
    /\ calls[q].pc = "done" /\ calls[q].lookup # "none"
    /\ calls[o].pc = "awaiting"
    /\ calls[q].given.id # calls[o].given.id
    /\ calls[q].given.op_code # calls[o].given.op_code

\* The tag a query is routed to: the matcher's, or the default tag.
RoutedTag(d) ==
  LET m == Dmatcher_matches(filter.matcher, d) IN
  IF m.kind = "Some" THEN m.tag ELSE filter.default_tag

C10_QueriesLeaveRouterUnchanged ==
  [][phase = "built" =>
       /\ phase' = "built"
       /\ filter'.matcher = filter.matcher
       /\ filter'.resolvers = filter.resolvers
       /\ filter'.default_tag = filter.default_tag
       /\ filter'.disable_ipv6 = filter.disable_ipv6
       /\ filter'.dsts = filter.dsts
       /\ \A d \in Domains :
            get_resolver(filter', d) = get_resolver(filter, d)]_vars

\* A query's lookup failed, a slot is free again, and the router is as
\* Filter::new made it.
C10_Witness ==
  /\ phase = "built"
  /\ filter = new(cfg).val
  /\ \E q \in Slots : calls[q].lookup = "Err"
  /\ \E q \in Slots : calls[q].pc = "idle"


\* The Hybrid tasks that have issued their members' queries.
Racing == {p \in Nodes : tasks[p].st # "absent" /\ tasks[p].spawned}

\* C7: a race returns the answer of the one member that completed
\* successfully, whatever members failed before it, and then none of its
\* members is left running; it fails exactly when every member has failed;
\* it goes on while members fail and none has succeeded. This holds at
\* every level of nesting, the members' tags being looked up in one map.
C7_RaceFirstSuccessWins ==
  /\ \A p \in Racing :
       LET kids == Children(umap, p) IN
       /\ KindAt(umap, p) = "Hybrid"
       /\ tasks[p].st = "ok" =>
            \E c \in kids :
              /\ tasks[c].st = "ok"
              /\ tasks[p].win = tasks[c].win
              /\ \A o \in kids \ {c} : tasks[o].st \in {"failed", "cancelled"}
       /\ (tasks[p].st = "failed") <=> (\A c \in kids : tasks[c].st = "failed")
       /\ tasks[p].st = "running" => \A c \in kids : tasks[c].st # "ok"
       /\ tasks[p].st = "cancelled" =>
            \A d \in Nodes : Under(p, d) => tasks[d].st # "running"
  /\ \A p \in Nodes :
       tasks[p].st = "ok" =>
         /\ Under(p, tasks[p].win)
         /\ KindAt(umap, tasks[p].win) = "Others"
         /\ tasks[tasks[p].win].st = "ok"

\* The root's first member failed; then its second member, itself a race,
\* got an answer from one member and dropped the other.
C7_Witness ==
  /\ tasks[<<>>].st = "ok"
  /\ tasks[<<1>>].st = "failed"
  /\ tasks[<<2>>].st = "ok"
  /\ tasks[<<2>>].spawned
  /\ \E c \in Children(umap, <<2>>) : tasks[c].st = "cancelled"
  /\ tasks[<<>>].win \in Children(umap, <<2>>)

\* C8: building a Hybrid builder, directly or through UpstreamBuilder,
\* performs no I/O and returns Ok(Upstream::Hybrid) holding the tags given
\* to add_tag, in call order, whatever they name.
C8_HybridBuildNeverFails ==
  builder.variant = "hybrid" =>
    /\ builder.tags = added
    /\ built.done =>
         /\ built.ok
         /\ built.upstream.kind = "Hybrid"
         /\ built.upstream.tags = added
         /\ built.io = 0
         /\ io = 0

\* A hybrid was built of its own tag and a tag that names no upstream.
C8_Witness ==
  /\ builder.variant = "hybrid"
  /\ built.done
  /\ Len(added) >= 2
  /\ added[1] = "self"
  /\ added[2] = "ghost"

\* A hybrid was built without any add_tag call.
C8_WitnessEmpty ==
  /\ builder.variant = "hybrid" /\ built.done /\ added = <<>>

=============================================================================
